---- MODULE Spec2Model ----
(***************************************************************************)
(* Model of the tabular-file ingestion views of superset/views/database/   *)
(* views.py: CsvToDatabaseView.form_post and ExcelToDatabaseView.form_post *)
(* with the upload directory, the physical table store and the catalog     *)
(* (SqlaTable rows) they act on.                                            *)
(*                                                                         *)
(* A request is a process: pc[r] is the position of request r inside       *)
(* form_post.  The engine-spec methods create_table_from_csv /             *)
(* create_table_from_excel and SqlaTable.fetch_metadata live outside the   *)
(* two source files; they are modelled from sections 4.3 and 4.4 of the    *)
(* specification.                                                          *)
(*                                                                         *)
(* Spec serves the requests one after another, SpecConc lets two of them   *)
(* run interleaved, SpecPolicy runs the access policy check alone.  sw is  *)
(* a call of upload_stream_write, step by step (SpecStream); fl is the     *)
(* example store and catalog under calls of load_flights of                *)
(* superset/examples/flights.py (SpecFlights).                             *)
(***************************************************************************)
EXTENDS Integers, Sequences, FiniteSets, TLC

VARIABLES pc, form, path, exc, failedAt, outcome, emitted,
          dirExists, files, tables, catalog, session,
          tables0, catalog0, files0, rmFailed, envFault, nreq,
          sw, fl

vars == <<pc, form, path, exc, failedAt, outcome, emitted,
          dirExists, files, tables, catalog, session,
          tables0, catalog0, files0, rmFailed, envFault, nreq,
          sw, fl>>

\* the state of the two views
viewVars == <<pc, form, path, exc, failedAt, outcome, emitted,
              dirExists, files, tables, catalog, session,
              tables0, catalog0, files0, rmFailed, envFault, nreq>>

\* ---------------------------------------------------------------- bounds
MaxRequests == 2

\* requests served by the concurrent specification
MaxConcRequests == 2

\* longest upload stream, largest UPLOAD_CHUNK_SIZE, in bytes
MaxStreamLen == 3
MaxChunkSize == 3

\* calls of load_flights
MaxCalls == 3

\* ------------------------------------------------------------- domains
Reqs == {1, 2}

Kinds == {"csv", "excel"}
Schemas == {"", "s"}
IfExists == {"fail", "replace", "append"}
Contents == {"f1", "f2"}
Users == {7, 8}

\* ids of the rows of models.Database
DatabaseIds == {1, 2}

\* database.get_extra() holds no explore_database_id
NoOverride == 0

\* the column schema the store reports for a table loaded from a file
ColsOf(content) ==
    IF content = "f1" THEN <<"id", "name">> ELSE <<"id", "ds">>

NoForm == [kind |-> "none"]
NoPath == "-"
NoSession == <<"closed">>

\* upload_stream_write, load_flights: the function is not being called
NoCall == [pc |-> "idle"]

NoTable == [exists |-> FALSE, cols |-> <<>>, rows |-> {}]

\* --------------------------------------------------- upload directory
Absent == "absent"
TmpNames == {"tmp1", "tmp2"}
CsvFilenames == {"a.csv", "../a.csv"}
ExcelFilenames == {"b.XLSX"}

\* werkzeug.utils.secure_filename on the filenames of the model: path
\* separators and leading dots are stripped
secure_filename(f) == IF f = "../a.csv" THEN "a.csv" ELSE f

\* os.path.splitext(f)[1].lower()
SuffixLower(f) == IF f = "b.XLSX" THEN ".xlsx" ELSE ".csv"

\* the name tempfile.NamedTemporaryFile gives a file with that suffix
TmpPath(n, f) ==
    IF SuffixLower(f) = ".xlsx"
    THEN (IF n = "tmp1" THEN "tmp1.xlsx" ELSE "tmp2.xlsx")
    ELSE (IF n = "tmp1" THEN "tmp1.csv" ELSE "tmp2.csv")

Paths == {secure_filename(f) : f \in CsvFilenames}
         \cup {TmpPath(n, f) : n \in TmpNames, f \in ExcelFilenames}

\* ---------------------------------------------------- databases, forms
\* the rows of models.Database a form can select: allow_csv_upload, the
\* schemas_allowed_for_csv_upload list and explore_database_id of the extra
\* (9 is an id that no row of models.Database has)
Db(id, allow, schemas, explore) ==
    [id |-> id, allow_csv_upload |-> allow, schemas_allowed |-> schemas,
     explore_database_id |-> explore]

Databases ==
    {Db(1, TRUE, <<>>, NoOverride), Db(1, TRUE, <<>>, 2),
     Db(1, TRUE, <<>>, 9), Db(2, TRUE, <<"s">>, NoOverride),
     Db(2, FALSE, <<>>, NoOverride)}

InList(x, list) == \E i \in 1..Len(list) : list[i] = x

\* the uploaded files: declared filename and content
Uploads ==
    {[kind |-> "csv", filename |-> "a.csv", content |-> "f1"],
     [kind |-> "csv", filename |-> "../a.csv", content |-> "f2"],
     [kind |-> "excel", filename |-> "b.XLSX", content |-> "f1"]}

\* the target tables a form names: schema field and table name field
Targets == {<<"", "t">>, <<"s", "t">>, <<"s", "n.t">>}

\* the physical tables of the model, by schema and table name
Keys == Targets

MkForm(up, con, access, all, target, if_exists, user) ==
    [kind |-> up.kind, con |-> con,
     database_access |-> access, all_datasource_access |-> all,
     schema |-> target[1], name |-> target[2], if_exists |-> if_exists,
     filename |-> up.filename, content |-> up.content, user |-> user]

\* g.user.id of the request: each file of the model is uploaded by a
\* principal of its own
UserOf(up) == IF up.content = "f1" THEN 7 ELSE 8

Forms ==
    {MkForm(up, con, access, FALSE, target, if_exists, UserOf(up)) :
        up \in Uploads, con \in Databases, access \in BOOLEAN,
        target \in Targets, if_exists \in IfExists}

\* --------------------------------------------------- access policy check
\* is_schema_allowed without the test of allow_csv_upload
CsvIsSchemaAllowedNoFlag(database, schema, db_access, all_access) ==
    IF Len(database.schemas_allowed) > 0
    THEN InList(schema, database.schemas_allowed)
    ELSE db_access \/ all_access

\* CsvToDatabaseView.is_schema_allowed; db_access and all_access are the
\* answers of security_manager.database_access(database) and
\* security_manager.all_datasource_access()
CsvIsSchemaAllowed(database, schema, db_access, all_access) ==
    IF ~database.allow_csv_upload THEN FALSE
    ELSE IF Len(database.schemas_allowed) > 0
         THEN InList(schema, database.schemas_allowed)
         ELSE db_access \/ all_access

\* is_schema_allowed that lets the unspecified schema pass an allow-list
ExcelIsSchemaAllowedEmptyOk(database, schema, db_access, all_access) ==
    IF ~database.allow_csv_upload THEN FALSE
    ELSE IF Len(database.schemas_allowed) > 0
         THEN schema = "" \/ InList(schema, database.schemas_allowed)
         ELSE db_access \/ all_access

\* ExcelToDatabaseView.is_schema_allowed
ExcelIsSchemaAllowed(database, schema, db_access, all_access) ==
    IF ~database.allow_csv_upload THEN FALSE
    ELSE IF Len(database.schemas_allowed) > 0
         THEN InList(schema, database.schemas_allowed)
         ELSE db_access \/ all_access

is_schema_allowed(f) ==
    IF f.kind = "csv"
    THEN CsvIsSchemaAllowed(f.con, f.schema, f.database_access,
                            f.all_datasource_access)
    ELSE ExcelIsSchemaAllowed(f.con, f.schema, f.database_access,
                              f.all_datasource_access)

\* --------------------------------------------------------------- state
\* no request has been made of the views
NoRequests ==
    /\ pc = [r \in Reqs |-> "idle"]
    /\ form = [r \in Reqs |-> NoForm]
    /\ path = [r \in Reqs |-> NoPath]
    /\ exc = [r \in Reqs |-> "none"]
    /\ failedAt = [r \in Reqs |-> "none"]
    /\ outcome = [r \in Reqs |-> "none"]
    /\ emitted = [r \in Reqs |-> <<>>]
    /\ dirExists \in BOOLEAN
    /\ files = [p \in Paths |-> Absent]
    /\ tables = [k \in Keys |-> NoTable]
    /\ catalog = <<>>
    /\ session = [r \in Reqs |-> NoSession]
    /\ tables0 = [r \in Reqs |-> [k \in Keys |-> NoTable]]
    /\ catalog0 = [r \in Reqs |-> <<>>]
    /\ files0 = [r \in Reqs |-> [p \in Paths |-> Absent]]
    /\ rmFailed = [r \in Reqs |-> FALSE]
    /\ envFault = [r \in Reqs |-> FALSE]
    /\ nreq = 0

Init ==
    /\ NoRequests
    /\ sw = NoCall
    /\ fl = NoCall

\* a request enters form_post with a submitted form; requests are served
\* one after another
Start(r) ==
    /\ \A q \in Reqs : pc[q] = "idle"
    /\ r = 1
    /\ nreq < MaxRequests
    /\ \E f \in Forms : form' = [form EXCEPT ![r] = f]
    /\ pc' = [pc EXCEPT ![r] = "policy"]
    /\ tables0' = [tables0 EXCEPT ![r] = tables]
    /\ catalog0' = [catalog0 EXCEPT ![r] = catalog]
    /\ files0' = [files0 EXCEPT ![r] = files]
    /\ nreq' = nreq + 1
    /\ UNCHANGED <<path, exc, failedAt, outcome, emitted, dirExists, files,
                   tables, catalog, session, rmFailed, envFault>>
    /\ UNCHANGED <<sw, fl>>

\* form_post, lines 112-123 and 192-203: the access policy check
PolicyCheck(r) ==
    /\ pc[r] = "policy"
    /\ IF ~is_schema_allowed(form[r])
       THEN /\ outcome' = [outcome EXCEPT ![r] = "PolicyDenied"]
            /\ pc' = [pc EXCEPT ![r] = "done"]
       ELSE /\ outcome' = outcome
            /\ pc' = [pc EXCEPT ![r] =
                         IF form[r].kind = "csv" THEN "stage" ELSE "validate"]
    /\ UNCHANGED <<form, path, exc, failedAt, emitted, dirExists, files,
                   tables, catalog, session, tables0, catalog0, files0, rmFailed,
                   envFault, nreq>>
    /\ UNCHANGED <<sw, fl>>

\* an exception that falls through to the statements after the try block
RaiseFallThrough(r, e, stage) ==
    /\ pc' = [pc EXCEPT ![r] = "cleanup"]
    /\ exc' = [exc EXCEPT ![r] = e]
    /\ failedAt' = [failedAt EXCEPT ![r] = stage]

\* an exception raised inside the try block reaches the except clause
Raise(r, e, stage) ==
    /\ pc' = [pc EXCEPT ![r] = "except"]
    /\ exc' = [exc EXCEPT ![r] = e]
    /\ failedAt' = [failedAt EXCEPT ![r] = stage]

\* the request has met a failure of its environment (history)
Faulted(r, fault) == envFault' = [envFault EXCEPT ![r] = @ \/ fault]

\* a test for "." that never finds one
HasDotNever(name) == FALSE

\* "." in name, on the table names of the model
HasDot(name) == name = "n.t"

\* Python truth value of a string
Truthy(str) == str # ""

\* ExcelToDatabaseView.form_post, lines 205-214
Validate(r) ==
    /\ pc[r] = "validate"
    /\ IF HasDot(form[r].name) /\ Truthy(form[r].schema)
       THEN /\ outcome' = [outcome EXCEPT ![r] = "ValidationError"]
            /\ pc' = [pc EXCEPT ![r] = "done"]
       ELSE /\ outcome' = outcome
            /\ pc' = [pc EXCEPT ![r] = "tmpfile"]
    /\ UNCHANGED <<form, path, exc, failedAt, emitted, dirExists, files,
                   tables, catalog, session, tables0, catalog0, files0, rmFailed,
                   envFault, nreq>>
    /\ UNCHANGED <<sw, fl>>

\* CsvToDatabaseView.form_post, lines 125-131
CsvStage(r) ==
    /\ pc[r] = "stage"
    /\ form[r].kind = "csv"
    /\ LET p == secure_filename(form[r].filename) IN
       /\ path' = [path EXCEPT ![r] = p]
       /\ \E fault \in {"none", "mkdir", "save"} :
            /\ fault = "mkdir" => ~dirExists
            /\ Faulted(r, fault # "none")
            /\ IF fault = "mkdir"
               THEN /\ Raise(r, "IOError", "staging")
                    /\ UNCHANGED <<dirExists, files>>
               ELSE /\ dirExists' = TRUE
                    /\ IF fault = "save"
                       THEN /\ Raise(r, "IOError", "staging")
                            /\ files' = [files EXCEPT ![p] = "partial"]
                       ELSE /\ files' = [files EXCEPT ![p] = form[r].content]
                            /\ pc' = [pc EXCEPT ![r] = "materialize"]
                            /\ UNCHANGED <<exc, failedAt>>
    /\ UNCHANGED <<form, outcome, emitted, tables, catalog, session,
                   tables0, catalog0, files0, rmFailed, nreq>>
    /\ UNCHANGED <<sw, fl>>

\* ExcelToDatabaseView.form_post, lines 216-220: the temporary file is
\* created before the try block is entered, so an error of
\* NamedTemporaryFile leaves form_post
ExcelTmpFile(r) ==
    /\ pc[r] = "tmpfile"
    /\ LET free == {n \in TmpNames :
                      files[TmpPath(n, form[r].filename)] = Absent} IN
       IF ~dirExists \/ free = {}
       THEN /\ outcome' = [outcome EXCEPT ![r] = "Raised"]
            /\ pc' = [pc EXCEPT ![r] = "done"]
            /\ UNCHANGED <<path, files>>
       ELSE \E n \in free :
              /\ path' = [path EXCEPT ![r] = TmpPath(n, form[r].filename)]
              /\ files' = [files EXCEPT
                             ![TmpPath(n, form[r].filename)] = "empty"]
              /\ pc' = [pc EXCEPT ![r] = "stage"]
              /\ outcome' = outcome
    /\ UNCHANGED <<form, exc, failedAt, emitted, dirExists, tables, catalog,
                   session, tables0, catalog0, files0, rmFailed, envFault, nreq>>
    /\ UNCHANGED <<sw, fl>>

\* ExcelToDatabaseView.form_post, lines 222-224
ExcelStage(r) ==
    /\ pc[r] = "stage"
    /\ form[r].kind = "excel"
    /\ \E fault \in {"none", "mkdir", "write"} :
         /\ fault = "mkdir" => ~dirExists
         /\ Faulted(r, fault # "none")
         /\ IF fault = "mkdir"
            THEN /\ Raise(r, "IOError", "staging")
                 /\ UNCHANGED <<dirExists, files>>
            ELSE /\ dirExists' = TRUE
                 /\ IF fault = "write"
                    THEN /\ Raise(r, "IOError", "staging")
                         /\ files' = [files EXCEPT ![path[r]] = "partial"]
                    ELSE /\ files' = [files EXCEPT ![path[r]] = form[r].content]
                         /\ pc' = [pc EXCEPT ![r] = "materialize"]
                         /\ UNCHANGED <<exc, failedAt>>
    /\ UNCHANGED <<form, path, outcome, emitted, tables, catalog, session,
                   tables0, catalog0, files0, rmFailed, nreq>>
    /\ UNCHANGED <<sw, fl>>

\* ------------------------------------------------------ table materializer
\* create_table_from_csv / create_table_from_excel (section 4.3 of the
\* specification): parse the staged file and write it under the conflict
\* policy; err is the exception raised, "none" on success
MaterializeTable(tbl, staged, if_exists) ==
    IF staged \notin Contents
    THEN [err |-> "MaterializeError", table |-> tbl]
    ELSE IF ~tbl.exists
    THEN [err |-> "none",
          table |-> [exists |-> TRUE, cols |-> ColsOf(staged),
                     rows |-> {staged}]]
    ELSE IF if_exists = "fail"
    THEN [err |-> "IntegrityError", table |-> tbl]
    ELSE IF if_exists = "replace"
    THEN [err |-> "none",
          table |-> [exists |-> TRUE, cols |-> ColsOf(staged),
                     rows |-> {staged}]]
    ELSE IF tbl.cols = ColsOf(staged)
    THEN [err |-> "none", table |-> [tbl EXCEPT !.rows = @ \cup {staged}]]
    ELSE [err |-> "MaterializeError", table |-> tbl]

TableKey(f) == <<f.schema, f.name>>

\* form_post, lines 132-135 (csv) and 226-253 (excel)
Materialize(r) ==
    /\ pc[r] = "materialize"
    /\ \E fault \in BOOLEAN :
         LET res == MaterializeTable(tables[TableKey(form[r])],
                                     files[path[r]], form[r].if_exists) IN
         /\ Faulted(r, fault)
         /\ IF fault
            THEN /\ Raise(r, "MaterializeError", "materialize")
                 /\ UNCHANGED tables
            ELSE IF res.err # "none"
            THEN /\ Raise(r, res.err, "materialize")
                 /\ UNCHANGED tables
            ELSE /\ tables' = [tables EXCEPT ![TableKey(form[r])] = res.table]
                 /\ pc' = [pc EXCEPT ![r] = "catalog"]
                 /\ UNCHANGED <<exc, failedAt>>
    /\ UNCHANGED <<form, path, outcome, emitted, dirExists, files, catalog,
                   session, tables0, catalog0, files0, rmFailed, nreq>>
    /\ UNCHANGED <<sw, fl>>

\* ------------------------------------------------------ catalog synchronizer
\* the rows of SqlaTable matching the filter_by of lines 268-276
Lookup(recs, name, schema, database_id) ==
    {i \in 1..Len(recs) : /\ recs[i].table_name = name
                          /\ recs[i].schema = schema
                          /\ recs[i].database_id = database_id}

\* an exploration store taken from the override without the fallback
ExploreDatabaseNoFallback(database) ==
    IF database.explore_database_id # NoOverride
    THEN database.explore_database_id
    ELSE database.id

\* lines 258-266: the store the catalog record is connected to
ExploreDatabase(database) ==
    IF database.explore_database_id # NoOverride
    THEN (IF database.explore_database_id \in DatabaseIds
          THEN database.explore_database_id
          ELSE database.id)
    ELSE database.id

\* SqlaTable.fetch_metadata (section 4.4): the column descriptors are
\* refreshed from the live table
FetchMetadata(rec, tbl) == [rec EXCEPT !.columns = tbl.cols]

\* lines 281-286: the SqlaTable object built for a table with no record
NewSqlaTable(f, tbl) ==
    FetchMetadata([table_name |-> f.name,
                   database |-> ExploreDatabase(f.con),
                   database_id |-> f.con.id,
                   user_id |-> f.user,
                   schema |-> f.schema,
                   columns |-> <<>>], tbl)

\* a sync that puts the new SqlaTable object in the place of the record found
SyncRecordsReplace(recs, found, new, tbl) ==
    IF found # {}
    THEN [i \in 1..Len(recs) |-> IF i \in found THEN new ELSE recs[i]]
    ELSE Append(recs, new)

\* lines 278-287: refresh the record found, or add a new one; recs are the
\* rows of the catalog the change is applied to
SyncRecords(recs, found, new, tbl) ==
    IF found # {}
    THEN [i \in 1..Len(recs) |->
            IF i \in found THEN FetchMetadata(recs[i], tbl) ELSE recs[i]]
    ELSE Append(recs, new)

\* ExcelToDatabaseView.form_post, lines 255-287
ExcelCatalogSync(r) ==
    /\ pc[r] = "catalog"
    /\ form[r].kind = "excel"
    /\ LET f == form[r]
           tbl == tables[TableKey(f)]
           found == Lookup(catalog, f.name, f.schema, ExploreDatabase(f.con))
       IN \E fault \in BOOLEAN :
            /\ Faulted(r, fault)
            /\ IF fault \/ Cardinality(found) > 1 \/ ~tbl.exists
               THEN /\ Raise(r, "CatalogError", "catalog")
                    /\ UNCHANGED session
               ELSE /\ session' = [session EXCEPT ![r] =
                                     <<found, NewSqlaTable(f, tbl), tbl>>]
                    /\ pc' = [pc EXCEPT ![r] = "commit"]
                    /\ UNCHANGED <<exc, failedAt>>
    /\ UNCHANGED <<form, path, outcome, emitted, dirExists, files, tables,
                   catalog, tables0, catalog0, files0, rmFailed, nreq>>
    /\ UNCHANGED <<sw, fl>>

\* lines 132-134: the SqlaTable object the csv view hands to the engine
CsvSqlaTable(f) ==
    [table_name |-> f.name, database |-> f.con.id,
     database_id |-> f.con.id, user_id |-> f.user, schema |-> f.schema,
     columns |-> <<>>]

\* the catalog half of create_table_from_csv (section 4.4): look the
\* table's record up, refresh it or create it
CsvCatalogSync(r) ==
    /\ pc[r] = "catalog"
    /\ form[r].kind = "csv"
    /\ LET f == form[r]
           tbl == tables[TableKey(f)]
           found == Lookup(catalog, f.name, f.schema, f.con.id)
       IN \E fault \in BOOLEAN :
            /\ Faulted(r, fault)
            /\ IF fault \/ Cardinality(found) > 1 \/ ~tbl.exists
               THEN /\ Raise(r, "CatalogError", "catalog")
                    /\ UNCHANGED session
               ELSE /\ session' = [session EXCEPT ![r] =
                         <<found, FetchMetadata(CsvSqlaTable(f), tbl), tbl>>]
                    /\ pc' = [pc EXCEPT ![r] = "commit"]
                    /\ UNCHANGED <<exc, failedAt>>
    /\ UNCHANGED <<form, path, outcome, emitted, dirExists, files, tables,
                   catalog, tables0, catalog0, files0, rmFailed, nreq>>
    /\ UNCHANGED <<sw, fl>>

\* a flush that stores the database_id column as it was assigned
FlushKeepColumn(recs) == recs

\* the flush of db.session.commit(): SQLAlchemy writes the foreign key of a
\* many-to-one relationship from the related object, so the database_id
\* column of a stored row is the id of the row's database relationship
Flush(recs) ==
    [i \in 1..Len(recs) |-> [recs[i] EXCEPT !.database_id = recs[i].database]]

\* the rows of the catalog once the pending change of a session (the
\* records found, the record to add, the live table) is written to them
Pending(recs, sess) == SyncRecords(recs, sess[1], sess[2], sess[3])

\* line 288: db.session.commit()
Commit(r) ==
    /\ pc[r] = "commit"
    /\ \E fault \in BOOLEAN :
         /\ Faulted(r, fault)
         /\ IF fault
            THEN /\ Raise(r, "CatalogError", "catalog")
                 /\ UNCHANGED catalog
            ELSE /\ catalog' = Flush(Pending(catalog, session[r]))
                 /\ pc' = [pc EXCEPT ![r] = "cleanup"]
                 /\ UNCHANGED <<exc, failedAt>>
    /\ UNCHANGED <<form, path, outcome, emitted, dirExists, files, tables,
                   session, tables0, catalog0, files0, rmFailed, nreq>>
    /\ UNCHANGED <<sw, fl>>

\* ------------------------------------------------- terminal transitions
\* os.remove(p) raises OSError when the file is missing or the
\* environment refuses the removal
RemoveRaises(fs, p, envFail) == envFail \/ fs[p] = Absent

\* os.remove that leaves the file where it is
os_remove_noop(fs, p, envFail) == fs

\* the upload directory after os.remove(p); nothing is removed when the
\* call raises
os_remove(fs, p, envFail) ==
    IF RemoveRaises(fs, p, envFail) THEN fs ELSE [fs EXCEPT ![p] = Absent]

\* os.remove(path) of lines 138, 152, 292 and 309
OsRemove(r, envFail) ==
    /\ files' = os_remove(files, path[r], envFail)
    /\ rmFailed' = [rmFailed EXCEPT ![r] = envFail /\ files[path[r]] # Absent]
    /\ Faulted(r, envFail)

\* lines 141-147: the message of the csv view for a caught exception
CsvFailureKind(e) == IF e = "IntegrityError" THEN "AlreadyExists" ELSE "Failed"

\* lines 295-303: the message of the excel view for a caught exception
ExcelFailureKind(e) == "Failed"

\* CsvToDatabaseView.form_post, lines 136-150
CsvExcept(r) ==
    /\ pc[r] = "except"
    /\ form[r].kind = "csv"
    /\ \E envFail \in BOOLEAN : OsRemove(r, envFail)
    /\ outcome' = [outcome EXCEPT ![r] = CsvFailureKind(exc[r])]
    /\ emitted' = [emitted EXCEPT ![r] = Append(@, "failed_csv_upload")]
    /\ pc' = [pc EXCEPT ![r] = "done"]
    /\ UNCHANGED <<form, path, exc, failedAt, dirExists, tables, catalog,
                   session, tables0, catalog0, files0, nreq>>
    /\ UNCHANGED <<sw, fl>>

\* a rollback that keeps the pending change in the session
RollbackKeep(sess) == sess

\* line 290: db.session.rollback() discards the pending change
Rollback(sess) == NoSession

\* ExcelToDatabaseView.form_post, lines 289-307
ExcelExcept(r) ==
    /\ pc[r] = "except"
    /\ form[r].kind = "excel"
    /\ session' = [session EXCEPT ![r] = Rollback(session[r])]
    /\ \E envFail \in BOOLEAN : OsRemove(r, envFail)
    /\ outcome' = [outcome EXCEPT ![r] = ExcelFailureKind(exc[r])]
    /\ emitted' = [emitted EXCEPT ![r] = Append(@, "failed_excel_upload")]
    /\ pc' = [pc EXCEPT ![r] = "done"]
    /\ UNCHANGED <<form, path, exc, failedAt, dirExists, tables, catalog,
                   tables0, catalog0, files0, nreq>>
    /\ UNCHANGED <<sw, fl>>

\* CsvToDatabaseView.form_post, lines 152-161: an OSError of os.remove is
\* not caught here and leaves form_post
CsvSuccess(r) ==
    /\ pc[r] = "cleanup"
    /\ form[r].kind = "csv"
    /\ \E envFail \in BOOLEAN :
         /\ OsRemove(r, envFail)
         /\ IF RemoveRaises(files, path[r], envFail)
            THEN /\ outcome' = [outcome EXCEPT ![r] = "Raised"]
                 /\ UNCHANGED emitted
            ELSE /\ outcome' = [outcome EXCEPT ![r] = "Done"]
                 /\ emitted' = [emitted EXCEPT ![r] =
                                  Append(@, "successful_csv_upload")]
    /\ pc' = [pc EXCEPT ![r] = "done"]
    /\ UNCHANGED <<form, path, exc, failedAt, dirExists, tables, catalog,
                   session, tables0, catalog0, files0, nreq>>
    /\ UNCHANGED <<sw, fl>>

\* ExcelToDatabaseView.form_post, lines 309-320
ExcelSuccess(r) ==
    /\ pc[r] = "cleanup"
    /\ form[r].kind = "excel"
    /\ \E envFail \in BOOLEAN :
         /\ OsRemove(r, envFail)
         /\ IF RemoveRaises(files, path[r], envFail)
            THEN /\ outcome' = [outcome EXCEPT ![r] = "Raised"]
                 /\ UNCHANGED emitted
            ELSE /\ outcome' = [outcome EXCEPT ![r] = "Done"]
                 /\ emitted' = [emitted EXCEPT ![r] =
                                  Append(@, "successful_excel_upload")]
    /\ pc' = [pc EXCEPT ![r] = "done"]
    /\ UNCHANGED <<form, path, exc, failedAt, dirExists, tables, catalog,
                   session, tables0, catalog0, files0, nreq>>
    /\ UNCHANGED <<sw, fl>>

\* form_post has returned; the request's objects are released
Return(r) ==
    /\ pc[r] = "done"
    /\ pc' = [pc EXCEPT ![r] = "idle"]
    /\ form' = [form EXCEPT ![r] = NoForm]
    /\ path' = [path EXCEPT ![r] = NoPath]
    /\ exc' = [exc EXCEPT ![r] = "none"]
    /\ failedAt' = [failedAt EXCEPT ![r] = "none"]
    /\ outcome' = [outcome EXCEPT ![r] = "none"]
    /\ emitted' = [emitted EXCEPT ![r] = <<>>]
    /\ session' = [session EXCEPT ![r] = NoSession]
    /\ tables0' = [tables0 EXCEPT ![r] = [k \in Keys |-> NoTable]]
    /\ catalog0' = [catalog0 EXCEPT ![r] = <<>>]
    /\ files0' = [files0 EXCEPT ![r] = [p \in Paths |-> Absent]]
    /\ rmFailed' = [rmFailed EXCEPT ![r] = FALSE]
    /\ envFault' = [envFault EXCEPT ![r] = FALSE]
    /\ UNCHANGED <<dirExists, files, tables, catalog, nreq>>
    /\ UNCHANGED <<sw, fl>>

Next ==
    \E r \in Reqs :
       \/ Start(r)
       \/ PolicyCheck(r)
       \/ Validate(r)
       \/ CsvStage(r)
       \/ ExcelTmpFile(r)
       \/ ExcelStage(r)
       \/ Materialize(r)
       \/ CsvCatalogSync(r)
       \/ ExcelCatalogSync(r)
       \/ Commit(r)
       \/ CsvExcept(r)
       \/ ExcelExcept(r)
       \/ CsvSuccess(r)
       \/ ExcelSuccess(r)
       \/ Return(r)

Spec == Init /\ [][Next]_vars

\* ------------------------------------------------- upload_stream_write
\* the bytes of an upload and the streams form_file_field.stream can hold
Bytes == {0, 1}
Streams == UNION {[1..n -> Bytes] : n \in 0..MaxStreamLen}

\* app.config["UPLOAD_CHUNK_SIZE"]
ChunkSizes == 1..MaxChunkSize

\* the file at path before the call: missing, the empty file left by
\* NamedTemporaryFile, or a file with content
NoFile == [exists |-> FALSE, data |-> <<>>]
FilesAtPath ==
    {NoFile, [exists |-> TRUE, data |-> <<>>], [exists |-> TRUE, data |-> <<1>>]}

Min(a, b) == IF a < b THEN a ELSE b

\* the lengths stream.read(size) can return with n bytes left: a stream
\* may return fewer bytes than asked, and returns none only at its end
ReadLens(n, size) == IF n = 0 THEN {0} ELSE 1..Min(n, size)

\* a write that puts the chunk in the place of the file's content
WriteChunkOverwrite(data, chunk) == chunk

\* line 58: file_description.write(chunk) on a file opened with "bw"
WriteChunk(data, chunk) == data \o chunk

\* upload_stream_write is called, lines 51-52
InitStream ==
    /\ NoRequests
    /\ fl = NoCall
    /\ \E stream \in Streams, chunk_size \in ChunkSizes, f \in FilesAtPath :
         sw = [pc |-> "open", stream |-> stream, pos |-> 0,
               chunk_size |-> chunk_size, chunk |-> <<>>, asked |-> 0,
               file |-> f, opened |-> FALSE]

\* line 53: open(path, "bw") creates the file or truncates it
OpenFile ==
    /\ sw.pc = "open"
    /\ \E fault \in BOOLEAN :
         IF fault
         THEN sw' = [sw EXCEPT !.pc = "raised"]
         ELSE sw' = [sw EXCEPT !.pc = "read", !.opened = TRUE,
                               !.file = [exists |-> TRUE, data |-> <<>>]]
    /\ UNCHANGED <<viewVars, fl>>

\* line 55: chunk = form_file_field.stream.read(chunk_size); an error of
\* the read leaves the with block, which closes the file
ReadChunk ==
    /\ sw.pc = "read"
    /\ \E fault \in BOOLEAN :
         IF fault
         THEN sw' = [sw EXCEPT !.pc = "raised", !.asked = sw.chunk_size]
         ELSE \E n \in ReadLens(Len(sw.stream) - sw.pos, sw.chunk_size) :
                sw' = [sw EXCEPT !.pc = "test", !.asked = sw.chunk_size,
                                 !.chunk = SubSeq(sw.stream, sw.pos + 1,
                                                  sw.pos + n),
                                 !.pos = sw.pos + n]
    /\ UNCHANGED <<viewVars, fl>>

\* lines 56-57: if not chunk: break
TestChunk ==
    /\ sw.pc = "test"
    /\ sw' = [sw EXCEPT !.pc = IF sw.chunk = <<>> THEN "returned" ELSE "write"]
    /\ UNCHANGED <<viewVars, fl>>

\* line 58: file_description.write(chunk); a failed write may have put
\* part of the chunk in the file
WriteFile ==
    /\ sw.pc = "write"
    /\ \E fault \in BOOLEAN :
         IF fault
         THEN \E k \in 0..(Len(sw.chunk) - 1) :
                sw' = [sw EXCEPT !.pc = "raised",
                                 !.file.data = WriteChunk(@, SubSeq(sw.chunk, 1, k))]
         ELSE sw' = [sw EXCEPT !.pc = "read",
                               !.file.data = WriteChunk(@, sw.chunk)]
    /\ UNCHANGED <<viewVars, fl>>

NextStream == OpenFile \/ ReadChunk \/ TestChunk \/ WriteFile

SpecStream == InitStream /\ [][NextStream]_vars

\* the call runs on one thread, which takes its next step
SpecStreamLive == SpecStream /\ WF_vars(NextStream)

\* ------------------------------------------------------- load_flights
\* line 27: tbl_name
tbl_name == "flights"

\* the id of utils.get_example_database(), and of another store
ExampleDatabase == 1
OtherDatabase == 2

\* the table pdf.to_sql(..., if_exists="replace") leaves in the store
FlightsTable ==
    [exists |-> TRUE, data |-> "flight_data", cols |-> <<"ds", "AIRLINE">>]

\* the table of that name in the example store before the first call
FlightsTables ==
    {[exists |-> FALSE, data |-> "", cols |-> <<>>],
     [exists |-> TRUE, data |-> "stale", cols |-> <<"ds">>]}

\* a row of TBL
Tbl(name, description, database, columns) ==
    [table_name |-> name, description |-> description,
     database |-> database, columns |-> columns]

\* the rows of TBL before the first call: none, the row of another table,
\* or a row of the flights table left by an earlier load
FlightsCatalogs ==
    {<<>>, <<Tbl("other", "", ExampleDatabase, <<"x">>)>>,
     <<Tbl(tbl_name, "", OtherDatabase, <<>>)>>}

\* a test of line 31 that does not look at force
ShouldLoadNoForce(only_metadata, table_exists, force) ==
    ~only_metadata /\ ~table_exists

\* line 31: not only_metadata and (not table_exists or force)
ShouldLoad(only_metadata, table_exists, force) ==
    ~only_metadata /\ (~table_exists \/ force)

\* the rows a query for table_name = tbl_name matches
FlightsRows(recs) == {i \in 1..Len(recs) : recs[i].table_name = tbl_name}

\* line 59: .first() - the first row matched, 0 for None
First(rows) == IF rows = {} THEN 0 ELSE CHOOSE i \in rows : \A j \in rows : i <= j

\* lines 60-65: the object found gets its description and database set; a
\* new object is inserted by merge and commit
MergeTbl(recs, i) ==
    IF i = 0
    THEN Append(recs, Tbl(tbl_name, "Random set of flights in the US",
                          ExampleDatabase, <<>>))
    ELSE [recs EXCEPT ![i].description = "Random set of flights in the US",
                      ![i].database = ExampleDatabase]

InitFlights ==
    /\ NoRequests
    /\ sw = NoCall
    /\ \E table \in FlightsTables, recs \in FlightsCatalogs :
         fl = [pc |-> "idle", only_metadata |-> FALSE, force |-> FALSE,
               table_exists |-> FALSE, table |-> table, table0 |-> table,
               wrote |-> FALSE, tbl |-> 0, catalog |-> recs, calls |-> 0,
               merged |-> FALSE]

\* lines 25-29: the call, and database.has_table_by_name(tbl_name)
LoadFlightsCall ==
    /\ fl.pc = "idle"
    /\ fl.calls < MaxCalls
    /\ \E only_metadata \in BOOLEAN, force \in BOOLEAN :
         fl' = [fl EXCEPT !.pc = "load", !.only_metadata = only_metadata,
                          !.force = force, !.table_exists = fl.table.exists,
                          !.table0 = fl.table, !.wrote = FALSE, !.tbl = 0,
                          !.calls = fl.calls + 1]
    /\ UNCHANGED <<viewVars, sw>>

\* lines 31-57: read the example data and write the table; reading the
\* data or writing the table may fail, which ends the call
LoadData ==
    /\ fl.pc = "load"
    /\ IF ShouldLoad(fl.only_metadata, fl.table_exists, fl.force)
       THEN \E fault \in BOOLEAN :
              IF fault
              THEN fl' = [fl EXCEPT !.pc = "raised"]
              ELSE fl' = [fl EXCEPT !.pc = "query", !.table = FlightsTable,
                                    !.wrote = TRUE]
       ELSE fl' = [fl EXCEPT !.pc = "query"]
    /\ UNCHANGED <<viewVars, sw>>

\* line 59: db.session.query(TBL).filter_by(table_name=tbl_name).first()
QueryTbl ==
    /\ fl.pc = "query"
    /\ fl' = [fl EXCEPT !.pc = "merge", !.tbl = First(FlightsRows(fl.catalog))]
    /\ UNCHANGED <<viewVars, sw>>

\* lines 60-65
MergeCommit ==
    /\ fl.pc = "merge"
    /\ fl' = [fl EXCEPT !.pc = "fetch", !.merged = TRUE,
                        !.catalog = MergeTbl(fl.catalog, fl.tbl)]
    /\ UNCHANGED <<viewVars, sw>>

\* line 66: tbl.fetch_metadata() refreshes the columns from the live
\* table and fails when the store has no such table
FlightsFetchMetadata ==
    /\ fl.pc = "fetch"
    /\ LET i == First(FlightsRows(fl.catalog)) IN
       IF fl.table.exists
       THEN fl' = [fl EXCEPT !.pc = "returned",
                             !.catalog[i].columns = fl.table.cols]
       ELSE fl' = [fl EXCEPT !.pc = "raised"]
    /\ UNCHANGED <<viewVars, sw>>

\* line 67, or the exception has left the call
LoadFlightsReturn ==
    /\ fl.pc \in {"returned", "raised"}
    /\ fl' = [fl EXCEPT !.pc = "idle"]
    /\ UNCHANGED <<viewVars, sw>>

NextFlights ==
    \/ LoadFlightsCall
    \/ LoadData
    \/ QueryTbl
    \/ MergeCommit
    \/ FlightsFetchMetadata
    \/ LoadFlightsReturn

SpecFlights == InitFlights /\ [][NextFlights]_vars

\* ================================================================ claims
\* the policy of section 4.2, stated on the fields of a form
PolicyPermits(f) ==
    /\ f.con.allow_csv_upload
    /\ \/ /\ f.con.schemas_allowed # <<>>
          /\ InList(f.schema, f.con.schemas_allowed)
       \/ /\ f.con.schemas_allowed = <<>>
          /\ (f.database_access \/ f.all_datasource_access)

Returned(r) == pc[r] = "done"

\* C1: once form_post has returned, whatever the terminal outcome, the
\* upload directory holds no file staged by the request, provided the
\* removal of the file did not itself fail.
C1_CleanupInvariant ==
    \A r \in Reqs :
       (Returned(r) /\ ~rmFailed[r] /\ path[r] # NoPath)
          => files[path[r]] = Absent

\* a request that staged a file, failed in the catalog sync and returned
C1_Witness ==
    \E r \in Reqs :
       /\ Returned(r) /\ ~rmFailed[r] /\ path[r] # NoPath
       /\ failedAt[r] = "catalog" /\ files[path[r]] = Absent

\* C2: a request the access policy denies returns with no staged file and
\* with the store and the catalog as they were.
C2_DeniedNoEffect ==
    \A r \in Reqs :
       (Returned(r) /\ ~PolicyPermits(form[r]))
          => /\ outcome[r] = "PolicyDenied"
             /\ path[r] = NoPath
             /\ files = files0[r]
             /\ tables = tables0[r]
             /\ catalog = catalog0[r]

\* a denied request has returned while the store holds a table
C2_Witness ==
    \E r \in Reqs :
       /\ Returned(r) /\ ~PolicyPermits(form[r])
       /\ \E k \in Keys : tables[k].exists

\* C3: with conflict policy 'fail' and the target table present, the
\* materializer's refusal is reported as the distinct 'already exists'
\* failure, on the csv and on the excel path, and the table is unchanged.
C3_AlreadyExistsDistinct ==
    \A r \in Reqs :
       (/\ Returned(r)
        /\ form[r].if_exists = "fail"
        /\ tables0[r][TableKey(form[r])].exists
        /\ failedAt[r] = "materialize"
        /\ ~envFault[r])
          => /\ outcome[r] = "AlreadyExists"
             /\ tables[TableKey(form[r])] = tables0[r][TableKey(form[r])]

\* the store a record of the table is owned by: the exploration store when
\* the override names an existing store, else the target store
OwningStore(f) ==
    IF f.kind = "excel" /\ f.con.explore_database_id \in DatabaseIds
    THEN f.con.explore_database_id
    ELSE f.con.id

RecordsOf(recs, f) ==
    {i \in 1..Len(recs) : /\ recs[i].table_name = f.name
                          /\ recs[i].schema = f.schema
                          /\ recs[i].database_id = OwningStore(f)}

\* C4: successive successful excel ingestions of one table leave exactly
\* one catalog record for it, also under an exploration-store override:
\* no two records share (owning store, schema, name), and a record that
\* existed before the request is the one the request refreshed.
C4_CatalogSyncIdempotent ==
    /\ \A i, j \in 1..Len(catalog) :
          (/\ catalog[i].table_name = catalog[j].table_name
           /\ catalog[i].schema = catalog[j].schema
           /\ catalog[i].database_id = catalog[j].database_id) => i = j
    /\ \A r \in Reqs :
          (Returned(r) /\ form[r].kind = "excel" /\ outcome[r] = "Done")
             => /\ Cardinality(RecordsOf(catalog, form[r])) = 1
                /\ RecordsOf(catalog0[r], form[r]) # {}
                     => /\ Len(catalog) = Len(catalog0[r])
                        /\ RecordsOf(catalog, form[r])
                             = RecordsOf(catalog0[r], form[r])

\* a second successful excel ingestion through an override that resolves
\* to another store has found the record of the first
C4_Witness ==
    \E r \in Reqs :
       /\ Returned(r) /\ form[r].kind = "excel" /\ outcome[r] = "Done"
       /\ form[r].con.id = 1 /\ form[r].con.explore_database_id = 2
       /\ RecordsOf(catalog0[r], form[r]) # {}
       /\ Len(catalog) = 1

\* a request the pipeline has nothing to object to
ValidRequest(f) == f.kind = "excel" => ~(f.name = "n.t" /\ f.schema # "")

\* C5: a valid, permitted request for a table that does not exist yet ends
\* in Done, and the columns of the table's catalog record are the columns
\* the store reports for the table.
C5_NewTableDone ==
    \A r \in Reqs :
       (/\ Returned(r)
        /\ PolicyPermits(form[r])
        /\ ValidRequest(form[r])
        /\ ~tables0[r][TableKey(form[r])].exists
        /\ ~envFault[r])
          => /\ outcome[r] = "Done"
             /\ \E i \in RecordsOf(catalog, form[r]) :
                   catalog[i].columns = tables[TableKey(form[r])].cols

SuccessCounter(f) ==
    IF f.kind = "csv" THEN "successful_csv_upload"
    ELSE "successful_excel_upload"

FailureCounter(f) ==
    IF f.kind = "csv" THEN "failed_csv_upload" ELSE "failed_excel_upload"

\* C6: a request that has terminated has emitted exactly one counter
\* increment: the success counter of its kind when it ended in Done, the
\* failure counter of its kind for every other outcome.
C6_OneCounterPerRequest ==
    \A r \in Reqs :
       Returned(r)
          => /\ Len(emitted[r]) = 1
             /\ emitted[r][1] = IF outcome[r] = "Done"
                                THEN SuccessCounter(form[r])
                                ELSE FailureCounter(form[r])

\* ---- the access policy check on its own: every combination of inputs
PolicySchemaLists == {<<>>, <<"s">>, <<"">>, <<"", "s">>}

PolicyForms ==
    {MkForm(up, Db(1, allow, schemas, NoOverride), access, all,
            <<schema, "t">>, "fail", 7) :
        up \in {u \in Uploads : u.content = "f1"}, allow \in BOOLEAN,
        schemas \in PolicySchemaLists, access \in BOOLEAN,
        all \in BOOLEAN, schema \in Schemas}

InitPolicy ==
    /\ \E f \in PolicyForms : form = [r \in Reqs |-> IF r = 1 THEN f ELSE NoForm]
    /\ pc = [r \in Reqs |-> IF r = 1 THEN "policy" ELSE "idle"]
    /\ path = [r \in Reqs |-> NoPath]
    /\ exc = [r \in Reqs |-> "none"]
    /\ failedAt = [r \in Reqs |-> "none"]
    /\ outcome = [r \in Reqs |-> "none"]
    /\ emitted = [r \in Reqs |-> <<>>]
    /\ dirExists \in BOOLEAN
    /\ files = [p \in Paths |-> Absent]
    /\ tables = [k \in Keys |-> NoTable]
    /\ catalog = <<>>
    /\ session = [r \in Reqs |-> NoSession]
    /\ tables0 = [r \in Reqs |-> [k \in Keys |-> NoTable]]
    /\ catalog0 = [r \in Reqs |-> <<>>]
    /\ files0 = [r \in Reqs |-> [p \in Paths |-> Absent]]
    /\ rmFailed = [r \in Reqs |-> FALSE]
    /\ envFault = [r \in Reqs |-> FALSE]
    /\ nreq = 1
    /\ sw = NoCall
    /\ fl = NoCall

NextPolicy == \E r \in Reqs : PolicyCheck(r)

SpecPolicy == InitPolicy /\ [][NextPolicy]_vars

\* C7: is_schema_allowed is false when the store does not permit upload;
\* else, with a (non-empty) allow-list, true exactly when the schema, the
\* empty one included, is in the list; else true exactly when the
\* principal has database access or all-datasource access.  The csv view
\* and the excel view compute the same function.
C7_PolicyFunction ==
    \A r \in Reqs :
       form[r].kind # "none"
          => /\ pc[r] \notin {"idle", "policy"}
                  => /\ (outcome[r] = "PolicyDenied") = ~PolicyPermits(form[r])
                     /\ (pc[r] = "done") = ~PolicyPermits(form[r])
             /\ CsvIsSchemaAllowed(form[r].con, form[r].schema,
                                   form[r].database_access,
                                   form[r].all_datasource_access)
                  = ExcelIsSchemaAllowed(form[r].con, form[r].schema,
                                         form[r].database_access,
                                         form[r].all_datasource_access)

\* the check has denied the empty schema, absent from the allow-list
C7_Witness ==
    \E r \in Reqs :
       /\ form[r].kind = "excel" /\ outcome[r] = "PolicyDenied"
       /\ form[r].con.allow_csv_upload
       /\ form[r].con.schemas_allowed = <<"s">> /\ form[r].schema = ""
       /\ form[r].database_access

\* C8 as stated: every excel upload with a "." in the table name and the
\* schema field set ends in ValidationError, having staged no file and
\* changed neither store nor catalog.
C8_AlwaysValidationError ==
    \A r \in Reqs :
       (/\ Returned(r) /\ form[r].kind = "excel"
        /\ form[r].name = "n.t" /\ form[r].schema = "s")
          => /\ outcome[r] = "ValidationError"
             /\ path[r] = NoPath /\ files = files0[r]
             /\ tables = tables0[r] /\ catalog = catalog0[r]

\* C8 (amended): every excel upload that the access policy permits, with a
\* "." in the table name and the schema field set, ends in
\* ValidationError, having staged no file and changed neither store nor
\* catalog.
C8_PermittedValidationError ==
    \A r \in Reqs :
       (/\ Returned(r) /\ form[r].kind = "excel"
        /\ form[r].name = "n.t" /\ form[r].schema = "s"
        /\ PolicyPermits(form[r]))
          => /\ outcome[r] = "ValidationError"
             /\ path[r] = NoPath /\ files = files0[r]
             /\ tables = tables0[r] /\ catalog = catalog0[r]

\* a permitted excel upload has been refused for its ambiguous table name
\* while the store holds a table
C8_Witness ==
    \E r \in Reqs :
       /\ Returned(r) /\ form[r].kind = "excel"
       /\ form[r].name = "n.t" /\ form[r].schema = "s"
       /\ PolicyPermits(form[r]) /\ outcome[r] = "ValidationError"
       /\ \E k \in Keys : tables[k].exists

\* C9: a failure of the catalog sync after a successful materialize is
\* reported as a failure class of its own (table written, cataloging
\* failed), not as the outcome of a failed materialize; stated for the
\* excel view, whose form_post runs the catalog sync itself.
C9_CatalogFailureDistinct ==
    \A r \in Reqs :
       (Returned(r) /\ form[r].kind = "excel" /\ failedAt[r] = "catalog")
          => outcome[r] = "CatalogError"

\* C10: a failed removal of the staged file does not change the reported
\* outcome: after a failed stage the primary failure is reported, after a
\* successful ingestion the request ends in Done with the success counter.
C10_CleanupFailureKeepsOutcome ==
    \A r \in Reqs :
       (Returned(r) /\ rmFailed[r])
          => IF failedAt[r] = "none"
             THEN /\ outcome[r] = "Done"
                  /\ emitted[r] = <<SuccessCounter(form[r])>>
             ELSE /\ outcome[r] \in {"Failed", "AlreadyExists"}
                  /\ emitted[r] = <<FailureCounter(form[r])>>

\* C11: every error of a stage is caught inside form_post and reported as
\* a failure outcome: no request leaves form_post with a raw exception
\* other than one of the final removal of the staged file, and a request
\* with nothing against it that meets no fault of its environment - the
\* upload directory may be missing, it is creatable - has staged its file.
C11_StageErrorsCaught ==
    \A r \in Reqs :
       Returned(r)
          => /\ outcome[r] = "Raised" => rmFailed[r]
             /\ (/\ PolicyPermits(form[r]) /\ ValidRequest(form[r])
                 /\ ~envFault[r])
                   => path[r] # NoPath /\ failedAt[r] # "staging"

\* ---- requests served concurrently: a request enters form_post while
\* another one is in flight
ConcForms ==
    {f \in Forms : /\ f.con = Db(1, TRUE, <<>>, NoOverride)
                   /\ f.database_access
                   /\ f.schema = ""
                   /\ f.if_exists = "replace"}

StartConc(r) ==
    /\ pc[r] = "idle"
    /\ nreq < MaxConcRequests
    /\ \E f \in ConcForms : form' = [form EXCEPT ![r] = f]
    /\ pc' = [pc EXCEPT ![r] = "policy"]
    /\ tables0' = [tables0 EXCEPT ![r] = tables]
    /\ catalog0' = [catalog0 EXCEPT ![r] = catalog]
    /\ files0' = [files0 EXCEPT ![r] = files]
    /\ nreq' = nreq + 1
    /\ UNCHANGED <<path, exc, failedAt, outcome, emitted, dirExists, files,
                   tables, catalog, session, rmFailed, envFault>>
    /\ UNCHANGED <<sw, fl>>

NextConc ==
    \E r \in Reqs :
       \/ StartConc(r)
       \/ PolicyCheck(r)
       \/ Validate(r)
       \/ CsvStage(r)
       \/ ExcelTmpFile(r)
       \/ ExcelStage(r)
       \/ Materialize(r)
       \/ CsvCatalogSync(r)
       \/ ExcelCatalogSync(r)
       \/ Commit(r)
       \/ CsvExcept(r)
       \/ ExcelExcept(r)
       \/ CsvSuccess(r)
       \/ ExcelSuccess(r)
       \/ Return(r)

SpecConc == Init /\ [][NextConc]_vars

\* a request that holds a staged path and has not returned
Holds(r) ==
    /\ path[r] # NoPath
    /\ pc[r] \in {"stage", "materialize", "catalog", "commit", "cleanup",
                  "except"}

\* C12: two requests in flight never hold the same staged path, and the
\* file a request has staged is still in place, with the content the
\* request wrote, when the request comes to materialize it.
C12_StagedFileExclusive ==
    /\ \A r, q \in Reqs : (r # q /\ Holds(r) /\ Holds(q)) => path[r] # path[q]
    /\ \A r \in Reqs :
          pc[r] = "materialize" => files[path[r]] = form[r].content

\* the steps of form_post that end a stage of the pipeline
TerminalOutcomes == {"Done", "Failed", "AlreadyExists"}

\* the part of the stage order that does not depend on where the policy
\* check stands: no stage is skipped, the except clause (Failed) is entered
\* from a stage only, the removal of the staged file is executed on the
\* way into Done and into Failed
StageOrder(r) ==
    /\ pc'[r] = "materialize"
          => pc[r] = "stage" /\ files'[path'[r]] = form[r].content
    /\ pc'[r] = "catalog" => pc[r] = "materialize"
    /\ pc'[r] = "commit" => pc[r] = "catalog"
    /\ pc'[r] = "cleanup" => pc[r] = "commit"
    /\ pc'[r] = "except"
          => pc[r] \in {"policy", "stage", "materialize", "catalog", "commit"}
    /\ (pc'[r] = "done" /\ outcome'[r] \in TerminalOutcomes)
          => /\ pc[r] \in {"cleanup", "except"}
             /\ files'[path[r]] = Absent \/ rmFailed'[r]

C14_PolicyBeforeWrite ==
    [][\A r \in Reqs :
          (/\ pc'[r] # pc[r]
           /\ pc[r] = "materialize" \/ tables' # tables)
             => /\ pc[r] \notin {"idle", "policy"}
                /\ PolicyPermits(form[r])]_vars

\* an excel request admitted through the allow-list of its store has
\* written its table
C14_Witness ==
    \E r \in Reqs :
       /\ pc[r] = "catalog" /\ form[r].kind = "excel"
       /\ form[r].con.schemas_allowed = <<"s">> /\ form[r].schema = "s"
       /\ ~form[r].database_access
       /\ tables # tables0[r]

\* C15: the record a successful excel ingestion creates is owned by the
\* exploration store when the override of the target store names an
\* existing store, by the target store otherwise, and that store is the
\* one the lookup for an existing record is keyed on.
C15_NewRecordOwner ==
    \A r \in Reqs :
       (/\ Returned(r) /\ form[r].kind = "excel" /\ outcome[r] = "Done"
        /\ Len(catalog) = Len(catalog0[r]) + 1)
          => /\ catalog[Len(catalog)].table_name = form[r].name
             /\ catalog[Len(catalog)].database_id = OwningStore(form[r])
             /\ catalog[Len(catalog)].database_id
                  = ExploreDatabase(form[r].con)

\* an excel ingestion into a store whose override names no existing store
\* has created a record, next to the record of an ingestion whose override
\* resolved
C15_Witness ==
    \E r \in Reqs :
       /\ Returned(r) /\ form[r].kind = "excel" /\ outcome[r] = "Done"
       /\ form[r].con.explore_database_id = 9
       /\ Len(catalog) = 2 /\ Len(catalog0[r]) = 1
       /\ catalog[1].database_id = 2 /\ catalog[2].database_id = 1

\* C16: when a step of the catalog sync fails (lookup, metadata refresh,
\* create, commit), the request returns with the catalog holding exactly
\* the records and column descriptors it held before the request, and the
\* excel view has rolled the pending change of its session back.
C16_CatalogRollback ==
    \A r \in Reqs :
       (Returned(r) /\ failedAt[r] = "catalog")
          => /\ catalog = catalog0[r]
             /\ form[r].kind = "excel" => session[r] = NoSession

\* the commit of an excel request that had a new record pending has
\* failed, while the catalog holds the record of an earlier request
C16_Witness ==
    \E r \in Reqs :
       /\ Returned(r) /\ form[r].kind = "excel"
       /\ failedAt[r] = "catalog" /\ exc[r] = "CatalogError"
       /\ tables # tables0[r]
       /\ Len(catalog0[r]) = 1 /\ RecordsOf(catalog0[r], form[r]) = {}
       /\ session[r] = NoSession

\* the fields of a catalog record that identify it
Identity(rec) ==
    <<rec.table_name, rec.database_id, rec.database, rec.schema, rec.user_id>>

\* C19: an ingestion into a table that has a catalog record changes only
\* the column descriptors of that record: its table name, owning store,
\* schema and owner stay as they were, every other record stays as it was,
\* and no outcome of a request removes a record from the catalog.
C19_SyncKeepsIdentity ==
    \A r \in Reqs :
       pc[r] # "idle"
          => /\ Len(catalog) >= Len(catalog0[r])
             /\ \A i \in 1..Len(catalog0[r]) :
                   /\ Identity(catalog[i]) = Identity(catalog0[r][i])
                   /\ catalog[i] # catalog0[r][i]
                         => i \in RecordsOf(catalog0[r], form[r])

\* an ingestion by another principal has refreshed the columns of a
\* record, which is still owned by the principal who created it
C19_Witness ==
    \E r \in Reqs :
       /\ Returned(r) /\ outcome[r] = "Done" /\ form[r].kind = "excel"
       /\ Len(catalog) = 1 /\ Len(catalog0[r]) = 1
       /\ catalog[1].columns # catalog0[r][1].columns
       /\ catalog[1].user_id # form[r].user

\* C17: when upload_stream_write fails after it opened the destination
\* file, no file is left at the destination once the error has left the
\* function.
C17_FailureLeavesNoFile ==
    (sw.pc = "raised" /\ sw.opened) => ~sw.file.exists

\* C18: upload_stream_write terminates on every finite stream with a chunk
\* size > 0, asks no read for more than chunk_size bytes, and on return the
\* file holds the chunks read in their order, which is the whole upload.
C18_StreamWriterCopies ==
    /\ [](sw.pc # "idle"
            => /\ sw.asked <= sw.chunk_size
               /\ Len(sw.chunk) <= sw.chunk_size
               /\ sw.pc = "returned"
                    => /\ sw.file = [exists |-> TRUE, data |-> sw.stream]
                       /\ sw.pos = Len(sw.stream))
    /\ <>(sw.pc \in {"returned", "raised"})

\* a stream longer than the chunk size has been copied, in more than one
\* chunk
C18_Witness ==
    /\ sw.pc = "returned"
    /\ Len(sw.stream) = 3 /\ sw.chunk_size = 2
    /\ sw.file.data = sw.stream

\* C20: a call of load_flights that gets past its load step has written
\* the flights table exactly when only_metadata is false and the table did
\* not exist or force is true; a call that has not written it leaves the
\* table as it found it; and once a call has committed, the catalog holds
\* exactly one record named flights, whatever calls follow.
C20_LoadFlights ==
    /\ fl.pc \in {"query", "merge", "fetch", "returned"}
          => /\ fl.wrote
                  <=> (~fl.only_metadata /\ (~fl.table0.exists \/ fl.force))
             /\ fl.wrote => fl.table.exists /\ fl.table.data = "flight_data"
    /\ ~fl.wrote => fl.table = fl.table0
    /\ fl.merged => Cardinality(FlightsRows(fl.catalog)) = 1

\* a third call, forced, has written the table again over the table an
\* earlier call wrote, and the catalog holds one record of it besides the
\* record of another table
C20_Witness ==
    /\ fl.pc = "returned" /\ fl.calls = 3
    /\ fl.force /\ ~fl.only_metadata
    /\ fl.table0.exists /\ fl.table0.data = "flight_data" /\ fl.wrote
    /\ Len(fl.catalog) = 2 /\ Cardinality(FlightsRows(fl.catalog)) = 1

====
